---- MODULE Spec2Model ----
(***************************************************************************)
(* Output-type validators of pandasai/helpers/output_types/_output_types.py *)
(*                                                                         *)
(* A validator instance checks a result dict {"type": ..., "value": ...}   *)
(* and returns (ok, logs).  The model keeps Python's objects as records    *)
(* [kind, chars]: kind is the object's class, chars the characters of a    *)
(* str (empty for every other class).  A dict is a function whose DOMAIN   *)
(* is the set of keys it holds.                                            *)
(*                                                                         *)
(* Three specifications:                                                   *)
(*   Spec        one validate call on an instance and a result dict drawn  *)
(*               from the bounded input sets;                              *)
(*   SpecRepeat  a caller that validates the same dict several times, with *)
(*               other validate calls in between;                          *)
(*   SpecConc    several callers inside validate on one shared instance,   *)
(*               interleaved statement by statement.                       *)
(***************************************************************************)
EXTENDS Naturals, Sequences, FiniteSets, TLC

VARIABLES
    default_types,  \* the list object bound to DefaultOutputType.default_types
    self,           \* class of the validator instance validate is called on
    result,         \* the result dict the caller passes (the caller's object)
    given,          \* history: the dict as the caller built it
    outcome,        \* what the last validate call gave back: a return or a raise
    calls,          \* history: the predicates the last validate call invoked
    pc,             \* "call" before the call, "done" after it
    first,          \* SpecRepeat: outcome of the caller's first call
    ncalls,         \* SpecRepeat: validate calls made on `result`
    other,          \* SpecRepeat: the last call made on another dict: its outcome,
                    \* and ncalls at that time
    rec,            \* SpecConc: rec[c], the dict caller c passes
    cpc,            \* SpecConc: cpc[c], the statement caller c is at
    frame,          \* SpecConc: frame[c], the locals of caller c's call
    validation_logs,\* SpecConc: validation_logs[c], the list of caller c's call
    ret             \* SpecConc: ret[c], what caller c's call gave back

vars == <<default_types, self, result, given, outcome, calls, pc, first,
          ncalls, other, rec, cpc, frame, validation_logs, ret>>

seqVars == <<result, given, outcome, calls, pc>>
repVars == <<first, ncalls, other>>
concVars == <<rec, cpc, frame, validation_logs, ret>>

-----------------------------------------------------------------------------
(* Bounds *)

\* longest str value drawn as a result's "value"
MaxLen == 3
\* SpecRepeat: the most calls a caller makes on its dict
MaxCalls == 3
\* SpecConc: callers inside validate at the same time
NumCallers == 2

-----------------------------------------------------------------------------
(* Python objects *)

Str(cs) == [kind |-> "str", chars |-> cs]
Obj(k) == [kind |-> k, chars |-> <<>>]
None == Obj("NoneType")

\* what a raising expression yields in place of a value
KeyError == Obj("<KeyError>")
IsExc(v) == v.kind = "<KeyError>"

TAG_NUMBER == Str(<<"n", "u", "m", "b", "e", "r">>)
TAG_DATAFRAME == Str(<<"d", "a", "t", "a", "f", "r", "a", "m", "e">>)
TAG_PLOT == Str(<<"p", "l", "o", "t">>)
TAG_STRING == Str(<<"s", "t", "r", "i", "n", "g">>)
TAG_DEFAULT == Str(<<"d", "e", "f", "a", "u", "l", "t">>)
TAG_HIGHCHART == Str(<<"h", "i", "g", "h", "c", "h", "a", "r", "t">>)
\* a tag that differs from "plot" in case only
TAG_PLOT_CAPITAL == Str(<<"P", "l", "o", "t">>)

\* classes of the objects drawn as values; bool is a subclass of int
ObjectBases(k) == IF k = "bool" THEN {"bool", "int", "object"} ELSE {k, "object"}
isinstance(v, classes) == ObjectBases(v.kind) \cap classes # {}

\* characters a drawn str is made of: a word character, dot, hyphen, slash,
\* space, newline, and a character that is none of these
Chars == {"a", ".", "-", "/", " ", "\n", "#"}
StrsUpTo(n) == UNION {[1..k -> Chars] : k \in 0..n}

NonStrKinds == {"int", "float", "Decimal", "bool", "NoneType", "list", "bytes",
                "dict", "DataFrame", "Series"}
Values == {Obj(k) : k \in NonStrKinds} \cup {Str(cs) : cs \in StrsUpTo(MaxLen)}
TypeTags == {TAG_NUMBER, TAG_DATAFRAME, TAG_PLOT, TAG_STRING, TAG_DEFAULT, TAG_HIGHCHART, TAG_PLOT_CAPITAL,
             None}

\* every dict over the keys "type" and "value", either key possibly missing
DictsOver(ts, vs) ==
    {[type |-> t, value |-> v] : t \in ts, v \in vs}
        \cup {[type |-> t] : t \in ts}
        \cup {[value |-> v] : v \in vs}
        \cup {[k \in {} |-> None]}
Results == DictsOver(TypeTags, Values)

\* mutant of dict_get: d[k] in place of d.get(k)
dict_get_subscript(d, k) == IF k \in DOMAIN d THEN d[k] ELSE KeyError
\* d.get(k): the entry, None when the key is missing
dict_get(d, k) == IF k \in DOMAIN d THEN d[k] ELSE None
\* mutant of dict_getitem: d.get(k) in place of d[k]
dict_getitem_default(d, k) == IF k \in DOMAIN d THEN d[k] ELSE None
\* d[k]: the entry, KeyError when the key is missing
dict_getitem(d, k) == IF k \in DOMAIN d THEN d[k] ELSE KeyError
\* mutant of dict_after_get: the dict as d.pop(k, None) leaves it
dict_after_pop(d, k) == [x \in DOMAIN d \ {k} |-> d[x]]
\* the dict as d.get(k) leaves it
dict_after_get(d, k) == d

truthy(v) == ~(v = None \/ v = Str(<<>>))
in_list(v, l) == \E i \in 1..Len(l) : l[i] = v

-----------------------------------------------------------------------------
(* The classes *)

Strict == {"NumberOutputType", "DataFrameOutputType", "PlotOutputType",
           "StringOutputType", "HighChartOutputType"}
Defaults == {"DefaultOutputType", "MKVDefaultOutputType"}
Classes == Strict \cup Defaults

\* the class and its bases, in method resolution order
mro(cls) ==
    IF cls = "MKVDefaultOutputType"
    THEN <<cls, "DefaultOutputType", "BaseOutputType">>
    ELSE IF cls = "BaseOutputType" THEN <<cls>>
    ELSE <<cls, "BaseOutputType">>

\* the attributes each class body defines
defines(cls) ==
    CASE cls = "BaseOutputType" -> {"validate", "_validate_type"}
      [] cls \in Strict -> {"name", "template_hint", "_validate_value"}
      [] cls = "DefaultOutputType" ->
            {"name", "template_hint", "_validate_type", "_validate_value",
             "validate", "default_types"}
      [] cls = "MKVDefaultOutputType" -> {"template_hint"}

\* the class whose body an attribute lookup on an instance of cls finds
resolve(cls, attr) ==
    LET m == mro(cls)
        i == CHOOSE i \in 1..Len(m) :
                /\ attr \in defines(m[i])
                /\ \A j \in 1..(i - 1) : attr \notin defines(m[j])
    IN m[i]

name(cls) ==
    LET c == resolve(cls, "name")
    IN CASE c = "NumberOutputType" -> TAG_NUMBER
         [] c = "DataFrameOutputType" -> TAG_DATAFRAME
         [] c = "PlotOutputType" -> TAG_PLOT
         [] c = "StringOutputType" -> TAG_STRING
         [] c = "DefaultOutputType" -> TAG_DEFAULT
         [] c = "HighChartOutputType" -> TAG_HIGHCHART

\* the output kinds a template hint names as possible or required
template_hint_kinds(cls) ==
    LET c == resolve(cls, "template_hint")
    IN CASE c = "MKVDefaultOutputType" -> {TAG_STRING, TAG_NUMBER, TAG_DATAFRAME, TAG_HIGHCHART}
         [] c = "DefaultOutputType" -> {TAG_STRING, TAG_NUMBER, TAG_DATAFRAME, TAG_PLOT}
         [] OTHER -> {name(c)}

-----------------------------------------------------------------------------
(* re.match(path_to_plot_pattern, actual_value) *)
(*                                                                         *)
(*   ^(\/[\w.-]+)+(/[\w.-]+)*$|^[^\s/]+(/[\w.-]+)*$                        *)
(*                                                                         *)
(* A position is the number of characters consumed, 0..Len(s).  Each piece *)
(* of the pattern maps a set of positions to the set of positions a match  *)
(* of the piece can end at, so that every way of matching is followed, as  *)
(* the backtracking matcher does.                                          *)

WordChars == {"a", "b", "c", "d", "e", "f", "g", "h", "i", "l", "m", "n", "o",
              "p", "r", "s", "t", "u", "P", "_", "0", "1"}
\* \w
IsWord(c) == c \in WordChars
\* \s
IsSpace(c) == c \in {" ", "\n", "\t", "\r"}
\* [\w.-]
IsSegChar(c) == IsWord(c) \/ c = "." \/ c = "-"
\* mutant of IsTokenChar: [^/], a first token that may hold whitespace
IsTokenChar_any(c) == c # "/"
\* [^\s/]
IsTokenChar(c) == ~IsSpace(c) /\ c # "/"

\* /[\w.-]+ from position i
OneSeg(s, i) ==
    {j \in (i + 2)..Len(s) :
        /\ s[i + 1] = "/"
        /\ \A k \in (i + 2)..j : IsSegChar(s[k])}

\* (/[\w.-]+)* from the positions P
RECURSIVE SegStar(_, _)
SegStar(s, P) ==
    LET Q == P \cup UNION {OneSeg(s, i) : i \in P}
    IN IF Q = P THEN P ELSE SegStar(s, Q)

\* (\/[\w.-]+)+ from position 0
SegPlus(s) == SegStar(s, OneSeg(s, 0))

\* [^\s/]+ from position 0
FirstToken(s) == {j \in 1..Len(s) : \A k \in 1..j : IsTokenChar(s[k])}

\* mutant of Dollar: \Z, only at the end of the string
Dollar_end_only(s, i) == i = Len(s)

\* $ (no MULTILINE flag): at the end of the string, and just before a
\* newline that is the string's last character
Dollar(s, i) ==
    \/ i = Len(s)
    \/ i = Len(s) - 1 /\ s[Len(s)] = "\n"

\* ^ is position 0, where re.match starts; a match may end anywhere
re_match(s) ==
    \/ \E j \in SegStar(s, SegPlus(s)) : Dollar(s, j)
    \/ \E j \in SegStar(s, FirstToken(s)) : Dollar(s, j)

-----------------------------------------------------------------------------
(* The predicates *)

\* df_type of ..df_info: an identifier of the table library for a
\* DataFrame or Series, None for anything else
df_type(v) ==
    IF v.kind \in {"DataFrame", "Series"}
    THEN Str(<<"p", "a", "n", "d", "a", "s">>)
    ELSE None

\* mutant of Base_validate_type: the tags compared with their case folded
Lower(c) == IF c = "P" THEN "p" ELSE c
Base_validate_type_nocase(cls, actual_type) ==
    /\ actual_type.kind = "str"
    /\ [i \in DOMAIN actual_type.chars |-> Lower(actual_type.chars[i])]
           = name(cls).chars

Base_validate_type(cls, actual_type) == actual_type = name(cls)

validate_type(cls, actual_type) ==
    LET c == resolve(cls, "_validate_type")
    IN CASE c = "BaseOutputType" -> Base_validate_type(cls, actual_type)
         [] c = "DefaultOutputType" -> TRUE

Number_validate_value(actual_value) ==
    isinstance(actual_value, {"int", "float", "Decimal"})

DataFrame_validate_value(actual_value) == truthy(df_type(actual_value))

Plot_validate_value(actual_value) ==
    IF ~isinstance(actual_value, {"str"})
    THEN FALSE
    ELSE re_match(actual_value.chars)

String_validate_value(actual_value) == isinstance(actual_value, {"str"})

HighChart_validate_value(actual_value) == isinstance(actual_value, {"dict"})

validate_value(cls, actual_value) ==
    LET c == resolve(cls, "_validate_value")
    IN CASE c = "NumberOutputType" -> Number_validate_value(actual_value)
         [] c = "DataFrameOutputType" -> DataFrame_validate_value(actual_value)
         [] c = "PlotOutputType" -> Plot_validate_value(actual_value)
         [] c = "StringOutputType" -> String_validate_value(actual_value)
         [] c = "HighChartOutputType" -> HighChart_validate_value(actual_value)
         [] c = "DefaultOutputType" -> TRUE

-----------------------------------------------------------------------------
(* validate *)

\* the text str() gives; an object that is no str is written as one token
py_str(v) ==
    CASE v.kind = "str" -> v.chars
      [] v.kind = "NoneType" -> <<"N", "o", "n", "e">>
      [] OTHER -> <<v.kind>>

\* the text repr() gives: a str in quotes with its newline escaped
py_repr(v) ==
    IF v.kind = "str"
    THEN LET esc[i \in 0..Len(v.chars)] ==
                 IF i = 0 THEN <<>>
                 ELSE esc[i - 1] \o (IF v.chars[i] = "\n"
                                     THEN <<"\\", "n">>
                                     ELSE <<v.chars[i]>>)
         IN <<"'">> \o esc[Len(v.chars)] \o <<"'">>
    ELSE py_str(v)

\* "The result dict contains inappropriate 'type'. Expected '..', actual '..'."
TypeMessage(cls, actual_type) ==
    [about |-> "type", expected |-> py_str(name(cls)),
     actual |-> py_str(actual_type)]

\* "Actual value .. seems to be inappropriate for the type '..'."
ValueMessage(cls, actual_value) ==
    [about |-> "value", expected |-> py_str(name(cls)),
     actual |-> py_repr(actual_value)]

NoOutcome == [kind |-> "none"]
Return(ok, logs) == [kind |-> "return", ok |-> ok, logs |-> logs]
Raise(exc) == [kind |-> "raise", exc |-> exc.kind]

\* mutant of default_types_of: MKVDefaultOutputType with a list of its own
\* that also holds "highchart"
default_types_of_mkv(cls) ==
    IF cls = "MKVDefaultOutputType"
    THEN Append(default_types, TAG_HIGHCHART)
    ELSE default_types
\* self.default_types: found on DefaultOutputType for both default classes
default_types_of(cls) ==
    LET c == resolve(cls, "default_types")
    IN CASE c = "DefaultOutputType" -> default_types

\* mutant of Base_validate: the call returns at the first failed check
Base_validate_first_failure(cls, res) ==
    LET actual_type == dict_get(res, "type")
        actual_value == dict_get(res, "value")
        type_ok == validate_type(cls, actual_type)
        value_ok == validate_value(cls, actual_value)
    IN IF ~type_ok
       THEN [outcome |-> Return(FALSE, <<TypeMessage(cls, actual_type)>>),
             calls |-> <<"_validate_type">>, result |-> res]
       ELSE [outcome |-> Return(value_ok,
                                IF value_ok THEN <<>>
                                ELSE <<ValueMessage(cls, actual_value)>>),
             calls |-> <<"_validate_type", "_validate_value">>,
             result |-> res]
\* BaseOutputType.validate.  A call gives its outcome, the predicates it
\* invoked, in order, and the dict as the call leaves it.
Base_validate(cls, res) ==
    LET actual_type == dict_get(res, "type")
        res1 == dict_after_get(res, "type")
        actual_value == dict_get(res1, "value")
        res2 == dict_after_get(res1, "value")
    IN IF IsExc(actual_type)
       THEN [outcome |-> Raise(actual_type), calls |-> <<>>, result |-> res1]
       ELSE IF IsExc(actual_value)
       THEN [outcome |-> Raise(actual_value), calls |-> <<>>, result |-> res2]
       ELSE
         LET type_ok == validate_type(cls, actual_type)
             logs1 == IF ~type_ok
                      THEN Append(<<>>, TypeMessage(cls, actual_type))
                      ELSE <<>>
             value_ok == validate_value(cls, actual_value)
             logs2 == IF ~value_ok
                      THEN Append(logs1, ValueMessage(cls, actual_value))
                      ELSE logs1
         IN [outcome |-> Return(type_ok /\ value_ok, logs2),
             calls |-> <<"_validate_type", "_validate_value">>,
             result |-> res2]

\* mutant of Default_validate: the value is also checked against the class
\* of the type the dict claims
Default_validate_value_too(cls, res) ==
    LET t == dict_getitem(res, "type")
        v == dict_get(res, "value")
    IN IF IsExc(t)
       THEN [outcome |-> Raise(t), calls |-> <<>>, result |-> res]
       ELSE [outcome |-> Return(/\ in_list(t, default_types_of(cls))
                                /\ \E c \in Strict : /\ name(c) = t
                                                     /\ validate_value(c, v),
                                <<>>),
             calls |-> <<>>, result |-> res]
\* DefaultOutputType.validate
Default_validate(cls, res) ==
    LET t == dict_getitem(res, "type")
    IN IF IsExc(t)
       THEN [outcome |-> Raise(t), calls |-> <<>>, result |-> res]
       ELSE [outcome |-> Return(in_list(t, default_types_of(cls)), <<>>),
             calls |-> <<>>, result |-> res]

\* instance.validate(res) on an instance of cls
validate(cls, res) ==
    LET c == resolve(cls, "validate")
    IN CASE c = "BaseOutputType" -> Base_validate(cls, res)
         [] c = "DefaultOutputType" -> Default_validate(cls, res)

-----------------------------------------------------------------------------
(* Spec: one validate call *)

DefaultTypesList == <<TAG_STRING, TAG_NUMBER, TAG_DATAFRAME, TAG_PLOT>>

Callers == 1..NumCallers

RepIdle ==
    /\ first = NoOutcome
    /\ ncalls = 0
    /\ other = [outcome |-> NoOutcome, after |-> 0]

ConcIdle ==
    /\ rec = [c \in Callers |-> [k \in {} |-> None]]
    /\ cpc = [c \in Callers |-> "off"]
    /\ frame = [c \in Callers |-> [k \in {} |-> None]]
    /\ validation_logs = [c \in Callers |-> <<>>]
    /\ ret = [c \in Callers |-> NoOutcome]

Init ==
    /\ default_types = DefaultTypesList
    /\ self \in Classes
    /\ result \in Results
    /\ given = result
    /\ outcome = NoOutcome
    /\ calls = <<>>
    /\ pc = "call"
    /\ RepIdle
    /\ ConcIdle

\* a call that BaseOutputType.validate serves
BaseOutputType_validate ==
    /\ pc = "call"
    /\ resolve(self, "validate") = "BaseOutputType"
    /\ LET r == Base_validate(self, result)
       IN /\ outcome' = r.outcome
          /\ calls' = r.calls
          /\ result' = r.result
    /\ pc' = "done"
    /\ UNCHANGED <<default_types, self, given, repVars, concVars>>

\* a call that DefaultOutputType.validate serves
DefaultOutputType_validate ==
    /\ pc = "call"
    /\ resolve(self, "validate") = "DefaultOutputType"
    /\ LET r == Default_validate(self, result)
       IN /\ outcome' = r.outcome
          /\ calls' = r.calls
          /\ result' = r.result
    /\ pc' = "done"
    /\ UNCHANGED <<default_types, self, given, repVars, concVars>>

Next == BaseOutputType_validate \/ DefaultOutputType_validate

Spec == Init /\ [][Next]_vars

-----------------------------------------------------------------------------
(* Claims about one validate call (Spec) *)

Done == pc = "done"
GivenType == IF "type" \in DOMAIN given THEN given.type ELSE None
GivenValue == IF "value" \in DOMAIN given THEN given.value ELSE None
Returned == outcome.kind = "return"
Raised == outcome.kind = "raise"

\* the value shapes each strict kind asks for
NumberClasses == {"int", "bool", "float", "Decimal"}
ValueFits(cls, v) ==
    CASE cls = "NumberOutputType" -> v.kind \in NumberClasses
      [] cls = "StringOutputType" -> v.kind = "str"
      [] cls = "HighChartOutputType" -> v.kind = "dict"
      [] cls = "DataFrameOutputType" -> truthy(df_type(v))
      [] cls = "PlotOutputType" -> v.kind = "str" /\ re_match(v.chars)
TypeFits(cls, t) == t = name(cls)

\* C1: a strict validator returns ok = True exactly when the result's
\* 'type' equals the validator's name, character for character, and the
\* value predicate of its kind holds for the result's 'value'.
C1_StrictOkIffTypeAndValue ==
    (Done /\ self \in Strict) =>
        /\ Returned
        /\ outcome.ok <=> (TypeFits(self, GivenType) /\ ValueFits(self, GivenValue))

\* a fitting value under a tag that differs from the name in case only
C1_Witness ==
    /\ Done
    /\ self = "PlotOutputType"
    /\ GivenType = TAG_PLOT_CAPITAL
    /\ ValueFits(self, GivenValue)
    /\ outcome = Return(FALSE, <<TypeMessage(self, TAG_PLOT_CAPITAL)>>)

FailedChecks ==
    (IF TypeFits(self, GivenType) THEN 0 ELSE 1)
        + (IF ValueFits(self, GivenValue) THEN 0 ELSE 1)

\* C2: a strict validator always runs the type check and then the value
\* check; it returns as many messages as checks failed, none exactly when
\* ok is True, the type message before the value message.
C2_BothChecksRunMessagesCount ==
    (Done /\ self \in Strict) =>
        /\ Returned
        /\ calls = <<"_validate_type", "_validate_value">>
        /\ Len(outcome.logs) = FailedChecks
        /\ (outcome.logs = <<>>) <=> outcome.ok
        /\ ~TypeFits(self, GivenType) =>
               outcome.logs[1] = TypeMessage(self, GivenType)
        /\ ~ValueFits(self, GivenValue) =>
               outcome.logs[Len(outcome.logs)] = ValueMessage(self, GivenValue)

\* both checks fail: two messages, type first
C2_Witness ==
    /\ Done
    /\ self \in Strict
    /\ ~TypeFits(self, GivenType)
    /\ ~ValueFits(self, GivenValue)
    /\ Len(outcome.logs) = 2
    /\ outcome.logs[1].about = "type"
    /\ outcome.logs[2].about = "value"

Whitelist == {TAG_STRING, TAG_NUMBER, TAG_DATAFRAME, TAG_PLOT}

C5_StrictTotalOnMissingKeys ==
    (Done /\ self \in Strict) =>
        /\ Returned
        /\ "type" \notin DOMAIN given =>
               /\ ~outcome.ok
               /\ outcome.logs[1] = TypeMessage(self, None)
        /\ "value" \notin DOMAIN given =>
               outcome.logs[Len(outcome.logs)] = ValueMessage(self, None)
        /\ DOMAIN given = {} =>
               outcome = Return(FALSE, <<TypeMessage(self, None),
                                         ValueMessage(self, None)>>)

C5_Witness ==
    /\ Done
    /\ self \in Strict
    /\ DOMAIN given = {}
    /\ Returned
    /\ Len(outcome.logs) = 2

Attributes == {"name", "template_hint", "validate", "_validate_type",
               "_validate_value", "default_types"}

-----------------------------------------------------------------------------
(* Claims about the plot path check (Spec) *)

\* the path shapes, read off the whole string
NoEmptySegment(s) ==
    /\ s[Len(s)] # "/"
    /\ \A i \in 1..(Len(s) - 1) : ~(s[i] = "/" /\ s[i + 1] = "/")
SlashesIn(s) == {i \in 1..Len(s) : s[i] = "/"}
FirstSlash(s) == CHOOSE i \in SlashesIn(s) : \A j \in SlashesIn(s) : i <= j
\* one or more segments of word characters, dots and hyphens, each after a "/"
AbsShape(s) ==
    /\ Len(s) >= 2
    /\ s[1] = "/"
    /\ NoEmptySegment(s)
    /\ \A i \in 1..Len(s) : s[i] = "/" \/ IsWord(s[i]) \/ s[i] \in {".", "-"}
\* a first token free of whitespace and "/", then "/"-separated segments
RelShape(s) ==
    /\ Len(s) >= 1
    /\ s[1] # "/"
    /\ NoEmptySegment(s)
    /\ LET tokenEnd == IF SlashesIn(s) = {} THEN Len(s) ELSE FirstSlash(s) - 1
       IN /\ \A i \in 1..tokenEnd : s[i] \notin {" ", "\n", "\t", "\r"}
          /\ \A i \in (tokenEnd + 1)..Len(s) :
                 s[i] = "/" \/ IsWord(s[i]) \/ s[i] \in {".", "-"}
PathShape(s) == AbsShape(s) \/ RelShape(s)

\* a path followed by one newline that ends the string
PathThenNewline(s) ==
    /\ Len(s) >= 2
    /\ s[Len(s)] = "\n"
    /\ PathShape(SubSeq(s, 1, Len(s) - 1))

\* the characters of the first segment: up to the first "/", or, when the
\* string starts with "/", between that "/" and the next one
FirstSegment(s) ==
    LET from == IF Len(s) >= 1 /\ s[1] = "/" THEN 2 ELSE 1
        later == {i \in SlashesIn(s) : i >= from}
        to == IF later = {} THEN Len(s)
              ELSE (CHOOSE i \in later : \A j \in later : i <= j) - 1
    IN {s[i] : i \in from..to}
WhitespaceInFirstSegment(s) ==
    FirstSegment(s) \cap {" ", "\n", "\t", "\r"} # {}

PlotDone == Done /\ self = "PlotOutputType"
\* the value check passed: the call logged no value message
ValueAccepted == Returned /\ \A i \in 1..Len(outcome.logs) : outcome.logs[i].about # "value"
ValueRejected == Returned /\ \E i \in 1..Len(outcome.logs) : outcome.logs[i].about = "value"

\* C9: the plot value check does not ask the whole string to have the path
\* shape: a path followed by a final newline is accepted, though the string
\* as a whole has no path shape.
C9_PlotAcceptsPathThenTrailing ==
    (PlotDone /\ GivenValue.kind = "str" /\ PathThenNewline(GivenValue.chars)) =>
        /\ ~PathShape(GivenValue.chars)
        /\ ValueAccepted

\* an accepted plot result whose value a whole-string check rejects
C9_Witness ==
    /\ PlotDone
    /\ GivenType = TAG_PLOT
    /\ GivenValue.kind = "str"
    /\ ~PathShape(GivenValue.chars)
    /\ outcome = Return(TRUE, <<>>)

\* what C10 says of the outcome under type "plot"
PlotOutcomeFollowsValue ==
    (PlotDone /\ GivenType = TAG_PLOT) =>
        /\ ValueAccepted => outcome = Return(TRUE, <<>>)
        /\ ValueRejected => outcome = Return(FALSE, <<ValueMessage(self, GivenValue)>>)

\* C10 as claimed: every non-str value, the empty string and every string
\* with whitespace in its first segment is rejected; every string of a path
\* shape is accepted; under type "plot" acceptance gives (True, no messages)
\* and rejection gives False with the one value message.
C10_Original ==
    /\ PlotDone =>
        /\ (\/ GivenValue.kind # "str"
            \/ GivenValue.chars = <<>>
            \/ WhitespaceInFirstSegment(GivenValue.chars)) => ValueRejected
        /\ (GivenValue.kind = "str" /\ PathShape(GivenValue.chars)) => ValueAccepted
    /\ PlotOutcomeFollowsValue

\* C10, amended: as claimed, but a string with whitespace in its first
\* segment is rejected unless it is a path followed by one final newline,
\* which is accepted.
C10_PlotValueShapes ==
    /\ PlotDone =>
        /\ (\/ GivenValue.kind # "str"
            \/ GivenValue.chars = <<>>
            \/ /\ WhitespaceInFirstSegment(GivenValue.chars)
               /\ ~PathThenNewline(GivenValue.chars)) => ValueRejected
        /\ (/\ GivenValue.kind = "str"
            /\ \/ PathShape(GivenValue.chars)
               \/ PathThenNewline(GivenValue.chars)) => ValueAccepted
    /\ PlotOutcomeFollowsValue

\* a space in the first segment: rejected with the one value message
C10_Witness ==
    /\ PlotDone
    /\ GivenType = TAG_PLOT
    /\ GivenValue = Str(<<"a", " ", "a">>)
    /\ outcome = Return(FALSE, <<ValueMessage(self, GivenValue)>>)

\* the plot check accepts exactly the path shapes and a path followed by
\* one final newline
PlotAcceptedShapes ==
    (PlotDone /\ GivenValue.kind = "str") =>
        (ValueAccepted <=> (\/ PathShape(GivenValue.chars)
                            \/ PathThenNewline(GivenValue.chars)))

-----------------------------------------------------------------------------
(* SpecRepeat: a caller validates its dict again and again on one          *)
(* instance, with validate calls on other dicts and instances in between   *)

RepeatTags == {TAG_NUMBER, TAG_PLOT, TAG_HIGHCHART}
RepeatValues == {Obj("int"), Str(<<"a">>), Obj("dict")}
RepeatResults == DictsOver(RepeatTags, RepeatValues)
\* the dicts of the calls in between
OtherResults == {[type |-> TAG_NUMBER, value |-> Obj("int")], [k \in {} |-> None]}

InitRepeat ==
    /\ default_types = DefaultTypesList
    /\ self \in Classes
    /\ result \in RepeatResults
    /\ given = result
    /\ outcome = NoOutcome
    /\ calls = <<>>
    /\ pc = "call"
    /\ RepIdle
    /\ ConcIdle

\* self.validate(result), once more
RepeatCall ==
    /\ ncalls < MaxCalls
    /\ LET r == validate(self, result)
       IN /\ outcome' = r.outcome
          /\ calls' = r.calls
          /\ result' = r.result
          /\ first' = IF ncalls = 0 THEN r.outcome ELSE first
    /\ ncalls' = ncalls + 1
    /\ pc' = "done"
    /\ UNCHANGED <<default_types, self, given, other, concVars>>

\* a validate call of some instance on some other dict
OtherCall ==
    /\ \E cls \in Classes, res \in OtherResults :
          other' = [outcome |-> validate(cls, res).outcome, after |-> ncalls]
    /\ UNCHANGED <<default_types, self, seqVars, first, ncalls, concVars>>

NextRepeat == RepeatCall \/ OtherCall

SpecRepeat == InitRepeat /\ [][NextRepeat]_vars

\* C7: every validate call on the same instance and dict gives what the
\* first one gave, whatever calls were made in between, and no call
\* changes the dict or the instance's default_types.
C7_RepeatedCallsAgree ==
    /\ ncalls >= 1 => outcome = first
    /\ result = given
    /\ default_types = DefaultTypesList

\* a second call made after another call that followed the first
C7_Witness ==
    /\ ncalls >= 2
    /\ other.after = 1
    /\ other.outcome # NoOutcome
    /\ other.outcome # first
    /\ outcome = first
    /\ Returned
    /\ Len(outcome.logs) = 2

-----------------------------------------------------------------------------
(* SpecConc: callers inside validate on one shared instance, one           *)
(* statement at a time                                                     *)

ConcResults ==
    {[type |-> TAG_NUMBER, value |-> Obj("int")],
     [type |-> TAG_PLOT, value |-> Str(<<"a">>)],
     [type |-> TAG_NUMBER, value |-> Str(<<"a">>)],
     [value |-> Obj("int")],
     [k \in {} |-> None]}

NoLocals == [actual_type |-> None, actual_value |-> None,
             type_ok |-> FALSE, value_ok |-> FALSE]

\* mutant of logs_cell: one list kept on the instance, used by every call
logs_cell_shared(c) == 1
\* the list object the local name validation_logs of caller c's call is
\* bound to: each call makes a list of its own
logs_cell(c) == c

InitConc ==
    /\ default_types = DefaultTypesList
    /\ self \in Classes
    /\ result = [k \in {} |-> None]
    /\ given = result
    /\ outcome = NoOutcome
    /\ calls = <<>>
    /\ pc = "off"
    /\ RepIdle
    /\ rec \in [Callers -> ConcResults]
    /\ cpc = [c \in Callers |-> "enter"]
    /\ frame = [c \in Callers |-> NoLocals]
    /\ validation_logs = [c \in Callers |-> <<>>]
    /\ ret = [c \in Callers |-> NoOutcome]

ConcUnchanged == UNCHANGED <<default_types, self, seqVars, repVars, rec>>

\* validation_logs = []; actual_type, actual_value = result.get(..), result.get(..)
EnterBase(c) ==
    /\ cpc[c] = "enter"
    /\ resolve(self, "validate") = "BaseOutputType"
    /\ validation_logs' = [validation_logs EXCEPT ![logs_cell(c)] = <<>>]
    /\ frame' = [frame EXCEPT ![c].actual_type = dict_get(rec[c], "type"),
                              ![c].actual_value = dict_get(rec[c], "value")]
    /\ cpc' = [cpc EXCEPT ![c] = "type_ok"]
    /\ UNCHANGED ret
    /\ ConcUnchanged

\* type_ok = self._validate_type(actual_type)
CheckType(c) ==
    /\ cpc[c] = "type_ok"
    /\ frame' = [frame EXCEPT ![c].type_ok =
                                  validate_type(self, frame[c].actual_type)]
    /\ cpc' = [cpc EXCEPT ![c] = "log_type"]
    /\ UNCHANGED <<validation_logs, ret>>
    /\ ConcUnchanged

\* if not type_ok: validation_logs.append(..)
LogType(c) ==
    /\ cpc[c] = "log_type"
    /\ validation_logs' =
           IF ~frame[c].type_ok
           THEN [validation_logs EXCEPT ![logs_cell(c)] =
                    Append(@, TypeMessage(self, frame[c].actual_type))]
           ELSE validation_logs
    /\ cpc' = [cpc EXCEPT ![c] = "value_ok"]
    /\ UNCHANGED <<frame, ret>>
    /\ ConcUnchanged

\* value_ok = self._validate_value(actual_value)
CheckValue(c) ==
    /\ cpc[c] = "value_ok"
    /\ frame' = [frame EXCEPT ![c].value_ok =
                                  validate_value(self, frame[c].actual_value)]
    /\ cpc' = [cpc EXCEPT ![c] = "log_value"]
    /\ UNCHANGED <<validation_logs, ret>>
    /\ ConcUnchanged

\* if not value_ok: validation_logs.append(..)
LogValue(c) ==
    /\ cpc[c] = "log_value"
    /\ validation_logs' =
           IF ~frame[c].value_ok
           THEN [validation_logs EXCEPT ![logs_cell(c)] =
                    Append(@, ValueMessage(self, frame[c].actual_value))]
           ELSE validation_logs
    /\ cpc' = [cpc EXCEPT ![c] = "return"]
    /\ UNCHANGED <<frame, ret>>
    /\ ConcUnchanged

\* return all((type_ok, value_ok)), validation_logs
ReturnBase(c) ==
    /\ cpc[c] = "return"
    /\ ret' = [ret EXCEPT ![c] = Return(frame[c].type_ok /\ frame[c].value_ok,
                                        validation_logs[logs_cell(c)])]
    /\ cpc' = [cpc EXCEPT ![c] = "done"]
    /\ UNCHANGED <<frame, validation_logs>>
    /\ ConcUnchanged

\* return result["type"] in self.default_types, ()
CallDefault(c) ==
    /\ cpc[c] = "enter"
    /\ resolve(self, "validate") = "DefaultOutputType"
    /\ ret' = [ret EXCEPT ![c] = Default_validate(self, rec[c]).outcome]
    /\ cpc' = [cpc EXCEPT ![c] = "done"]
    /\ UNCHANGED <<frame, validation_logs>>
    /\ ConcUnchanged

NextConc ==
    \E c \in Callers :
        \/ EnterBase(c)
        \/ CheckType(c)
        \/ LogType(c)
        \/ CheckValue(c)
        \/ LogValue(c)
        \/ ReturnBase(c)
        \/ CallDefault(c)

SpecConc == InitConc /\ [][NextConc]_vars

\* C8: under every interleaving of the callers' statements, a caller that
\* has returned holds exactly the outcome a call running alone on its dict
\* gives; its messages are the ones about its own dict.
C8_ConcurrentCallersIsolated ==
    \A c \in Callers :
        cpc[c] = "done" => ret[c] = validate(self, rec[c]).outcome

\* caller 1 has returned its two messages while caller 2, on another dict,
\* is inside its call with a message logged
C8_Witness ==
    /\ cpc[1] = "done"
    /\ ret[1].kind = "return"
    /\ Len(ret[1].logs) = 2
    /\ cpc[2] = "value_ok"
    /\ rec[2] # rec[1]
    /\ Len(validation_logs[2]) = 1
    /\ validation_logs[2][1] # ret[1].logs[1]

====
